---------------------------- MODULE Spec2Model ----------------------------
(***************************************************************************)
(* Live tracking engine of the transit backend: the ingest handler         *)
(* (updateBusLocation), the live query (getLiveBus), the geometry lookup   *)
(* (getRouteGeometryAndStops), the hot cache (Upstash Redis hashes and     *)
(* lists), the Socket.IO rooms (initSocket / emitBusUpdate) and the        *)
(* polyline computation of a route (computeAndStorePolyline).              *)
(*                                                                         *)
(* Every await of a handler is one step of its process: the code between   *)
(* two awaits runs without interleaving on the Node event loop, and the    *)
(* awaited operation takes effect at the step that resumes the handler.    *)
(* The cache commands of concurrent handlers are separate requests to the  *)
(* store, applied in whatever order they arrive.                           *)
(*                                                                         *)
(* Speeds (avgSpeed) are in tenths of km/h, distances in km on a grid, the *)
(* clock and lastUpdated in seconds.                                       *)
(***************************************************************************)
EXTENDS Integers, Sequences, FiniteSets, TLC

(***************************************************************************)
(* Bounds of the exploration.                                              *)
(***************************************************************************)
MaxIngestRing == 4
MaxIngestRace == 2
MaxIngestPush == 2
MaxIngestRead == 2
MaxLive == 1
MaxTime == 1
MaxFaults == 1
MaxIngestStale == 1
MaxLiveStale == 2
MaxIngestAdmin == 1
MaxCompute == 2
MaxIngestCheck == 2
MaxIngestClient == 1
MaxResub == 2
MaxAddRoute == 1
MaxCapture == 2
MaxFlush == 1
MaxCaptureReject == 1
MaxFlushReject == 1
MaxFlushRetry == 5
MaxCaptureRetry == 3

\* Offline after 90 seconds without a report (diff <= 90 * 1000).
StaleSeconds == 90

(***************************************************************************)
(* JavaScript values of a request body, and the conversions the handlers   *)
(* apply to them.                                                          *)
(***************************************************************************)
Num(n) == [t |-> "num", n |-> n]
Undefined == [t |-> "undefined", n |-> 0]
Null == [t |-> "null", n |-> 0]
NaN == [t |-> "nan", n |-> 0]
Infinity == [t |-> "infinity", n |-> 0]
EmptyStr == [t |-> "emptystr", n |-> 0]
TextStr == [t |-> "text", n |-> 0]

\* Number(v) of a request value v.
ToNumber(v) ==
    CASE v.t = "num" -> v
      [] v.t = "null" -> Num(0)
      [] v.t = "emptystr" -> Num(0)
      [] v.t = "infinity" -> Infinity
      [] OTHER -> NaN

\* Number(String(v)): what a value reads back as after it was stored as a
\* string in the cache ("null" and "undefined" are not numeric strings).
NumberOfString(v) ==
    CASE v.t = "num" -> v
      [] v.t = "emptystr" -> Num(0)
      [] v.t = "infinity" -> Infinity
      [] OTHER -> NaN

IsFinite(v) == v.t = "num"

\* !v of a request value (busId, routeId).
Falsy(v) == v.t \in {"undefined", "null", "emptystr", "nan"} \/ (v.t = "num" /\ v.n = 0)

(***************************************************************************)
(* Durable store (Mongo): buses, routes and polylines.  The live engine    *)
(* reads them and never writes them.                                       *)
(***************************************************************************)
None == [t |-> "none"]

\* The ids Route.create gives to the routes added while the system runs.
NewRouteIds == <<"R4", "R5">>

Routes == {"R1", "R2", "R3"} \cup {NewRouteIds[i] : i \in DOMAIN NewRouteIds}

\* Bus documents: busId -> routeId.  V2's route has no Polyline document
\* at start, V3's route document does not exist.
BusDocs == [V1 |-> "R1", V2 |-> "R2", V3 |-> "R3"]

KnownBuses == DOMAIN BusDocs

\* The busIds that requests name, known or not: the keys bus:<busId> and
\* bus:<busId>:speeds the hot cache could hold.
BusKeys == KnownBuses \cup {"UNKNOWN"}

Stop(id, name, lat, lng) == [stopId |-> id, name |-> name, latitude |-> lat, longitude |-> lng]

\* Route documents: routeId -> stops, in traversal order.
RouteDocs ==
    [R1 |-> <<Stop("s1", "Connaught Place", 0, 0), Stop("s2", "Midway", 0, 2), Stop("s3", "Terminus", 0, 4)>>,
     R2 |-> <<Stop("s1", "Depot", 1, 0), Stop("s2", "Market", 1, 3)>>]

\* The Polyline documents present at start: routeId -> geometry, the
\* encoded polyline, written here as the [lat, lng] pairs it encodes.
PolylineDocs == [R1 |-> <<<<0, 0>>, <<0, 4>>>>]

\* The routeName of the Route documents present at start.
RouteNames == [R1 |-> "Route 1", R2 |-> "Route 2"]

\* The body of a valid POST /api/routes for a route that does not exist yet.
NewRouteName == "Route 3"
NewRouteStops == <<Stop("s1", "North", 2, 0), Stop("s2", "South", 2, 2)>>

\* The stops of the Route document with this id.
StopsOf(routeId) == IF routeId \in DOMAIN RouteDocs THEN RouteDocs[routeId] ELSE NewRouteStops

\* Bus.findOne({ busId }).lean()
BusFindOne(busId) ==
    IF busId.t = "id" /\ busId.id \in KnownBuses
    THEN [t |-> "doc", routeId |-> BusDocs[busId.id]]
    ELSE None

BusId(id) == [t |-> "id", id |-> id]


(***************************************************************************)
(* Pure helpers of liveController.js.                                      *)
(***************************************************************************)
RECURSIVE SumSeq(_)
SumSeq(s) == IF s = <<>> THEN 0 ELSE Head(s) + SumSeq(Tail(s))

RECURSIVE FilterValid(_)
\* speeds.map(Number).filter(n => Number.isFinite(n) && n >= 0), as numbers
FilterValid(s) ==
    IF s = <<>> THEN <<>>
    ELSE LET n == NumberOfString(Head(s))
         IN  IF IsFinite(n) /\ n.n >= 0
             THEN <<n.n>> \o FilterValid(Tail(s))
             ELSE FilterValid(Tail(s))

\* Math.round(x) for x = a / b with a >= 0, b > 0.
RoundDiv(a, b) == (2 * a + b) \div (2 * b)

\* computeAverageSpeed: the mean rounded to one decimal, in TENTHS of km/h
\* (500 stands for 50.0).
computeAverageSpeed(speeds) ==
    LET nums == FilterValid(speeds)
    IN  IF Len(nums) = 0 THEN 0 ELSE RoundDiv(SumSeq(nums) * 10, Len(nums))

\* polyline.decode(geometry).map(([lat, lng]) => [lng, lat])
DecodeToLngLat(geometry) == [i \in 1..Len(geometry) |-> <<geometry[i][2], geometry[i][1]>>]

Abs(x) == IF x < 0 THEN -x ELSE x
Min2(a, b) == IF a <= b THEN a ELSE b
Max2(a, b) == IF a >= b THEN a ELSE b
Clamp(x, a, b) == Max2(Min2(a, b), Min2(x, Max2(a, b)))

\* The foot of point p on segment (a, b), all [lng, lat]; the routes of the
\* model run along grid lines, one unit of the grid being one kilometre.
SegFoot(a, b, p) ==
    IF a[2] = b[2] THEN <<Clamp(p[1], a[1], b[1]), a[2]>>
    ELSE IF a[1] = b[1] THEN <<a[1], Clamp(p[2], a[2], b[2])>>
    ELSE a

Dist2(p, q) == (p[1] - q[1]) * (p[1] - q[1]) + (p[2] - q[2]) * (p[2] - q[2])
SegLen(a, b) == Abs(a[1] - b[1]) + Abs(a[2] - b[2])

RECURSIVE LenUpTo(_, _)
\* The arc length of coords from its first vertex to vertex i.
LenUpTo(coords, i) == IF i <= 1 THEN 0 ELSE LenUpTo(coords, i - 1) + SegLen(coords[i - 1], coords[i])

\* turf.nearestPointOnLine(line, point, {units: 'kilometers'}): the closest
\* foot over the segments (the earliest on a tie) and its distance along
\* the line, properties.location.
nearestPointOnLine(coords, p) ==
    LET segs == 1..(Len(coords) - 1)
        foot(i) == SegFoot(coords[i], coords[i + 1], p)
        best == CHOOSE i \in segs :
                   \A j \in segs : \/ Dist2(foot(i), p) < Dist2(foot(j), p)
                                   \/ (Dist2(foot(i), p) = Dist2(foot(j), p) /\ i <= j)
    IN  [coordinates |-> foot(best),
         location |-> LenUpTo(coords, best) + SegLen(coords[best], foot(best))]

\* computeSnappedAndEtas without the clamp of line 68: a stop already
\* passed gets the negative remaining distance.
computeSnappedAndEtas_Signed(coords, stops, busPoint, avgSpeedKmh) ==
    IF coords = None \/ Len(coords.v) = 0 THEN [snapped |-> None, etaStops |-> <<>>]
    ELSE
      LET line == coords.v
          snapped == nearestPointOnLine(line, <<busPoint.lng, busPoint.lat>>)
          kmh == Max2(10, avgSpeedKmh)
          stopList == IF stops = None THEN <<>> ELSE stops.v
          eta(s) ==
            LET q == nearestPointOnLine(line, <<s.longitude, s.latitude>>)
            IN  [stopId |-> s.stopId, name |-> s.name,
                 etaMinutes |-> RoundDiv((q.location - snapped.location) * 600, kmh)]
      IN  [snapped |-> [t |-> "loc", lat |-> snapped.coordinates[2], lng |-> snapped.coordinates[1]],
           etaStops |-> [i \in 1..Len(stopList) |-> eta(stopList[i])]]

\* computeSnappedAndEtas with the distance to the stop taken as an absolute
\* value: a stop already passed gets the time to drive back to it.
computeSnappedAndEtas_Abs(coords, stops, busPoint, avgSpeedKmh) ==
    IF coords = None \/ Len(coords.v) = 0 THEN [snapped |-> None, etaStops |-> <<>>]
    ELSE
      LET line == coords.v
          snapped == nearestPointOnLine(line, <<busPoint.lng, busPoint.lat>>)
          kmh == Max2(10, avgSpeedKmh)
          stopList == IF stops = None THEN <<>> ELSE stops.v
          eta(s) ==
            LET q == nearestPointOnLine(line, <<s.longitude, s.latitude>>)
            IN  [stopId |-> s.stopId, name |-> s.name,
                 etaMinutes |-> RoundDiv(Abs(q.location - snapped.location) * 600, kmh)]
      IN  [snapped |-> [t |-> "loc", lat |-> snapped.coordinates[2], lng |-> snapped.coordinates[1]],
           etaStops |-> [i \in 1..Len(stopList) |-> eta(stopList[i])]]

\* computeSnappedAndEtas(coords, stops, busPoint, avgSpeedKmh); coords and
\* stops are None when the geometry is missing, avgSpeedKmh is in tenths.
computeSnappedAndEtas(coords, stops, busPoint, avgSpeedKmh) ==
    IF coords = None \/ Len(coords.v) = 0 THEN [snapped |-> None, etaStops |-> <<>>]
    ELSE
      LET line == coords.v
          snapped == nearestPointOnLine(line, <<busPoint.lng, busPoint.lat>>)
          busDistKm == snapped.location
          kmh == Max2(10, avgSpeedKmh)
          stopList == IF stops = None THEN <<>> ELSE stops.v
          eta(s) ==
            LET q == nearestPointOnLine(line, <<s.longitude, s.latitude>>)
                remainingKm == Max2(q.location - busDistKm, 0)
            IN  [stopId |-> s.stopId, name |-> s.name,
                 etaMinutes |-> RoundDiv(remainingKm * 600, kmh)]
      IN  [snapped |-> [t |-> "loc", lat |-> snapped.coordinates[2], lng |-> snapped.coordinates[1]],
           etaStops |-> [i \in 1..Len(stopList) |-> eta(stopList[i])]]

(***************************************************************************)
(* State.                                                                  *)
(***************************************************************************)
VARIABLES
    workload,    \* the bounds of this run: request mix, input domains, faults
    now,         \* the server clock, Date.now()
    busHash,     \* hot cache: bus:<busId> hashes
    speeds,      \* hot cache: bus:<busId>:speeds lists, head first
    routeCache,  \* hot cache: route:<routeId> hashes
    req,         \* the handler invocations in flight, one per process
    started,     \* number of ingest requests received so far
    asked,       \* number of live queries received so far
    faults,      \* number of store / cache operations that failed so far
    connected,   \* sockets: connected or not
    rooms,       \* sockets: the rooms each one has joined
    inbox,       \* sockets: the bus:update events each one has received
    recent,      \* history: per bus, the three newest finite non-negative speeds recorded
    snaps,       \* history: per bus, the states between completed reports
    newest,      \* history: per bus, the greatest lastUpdated written so far
    polylineDocs,\* durable store: the Polyline documents, routeId -> geometry
    computes,    \* number of polyline computations requested so far
    routes,      \* durable store: the Route documents, routeId -> document
    added,       \* number of addRoute requests received so far
    watching,    \* web clients: the busIds each socket has sent joinBus for
    subCount,    \* history: per socket and route, the subscribe:route messages
                 \* since the last unsubscribe:route, counted up to workload.resubs
    queue,       \* driver device: AsyncStorage item pendingLocationUpdates
    dev,         \* driver device: the background tasks and flushes in flight
    captured,    \* driver device: number of locations captured so far
    flushes,     \* driver device: number of flushQueue calls so far
    delivered,   \* history: the reports the backend accepted, in order
    queued,      \* history: the reports addToQueue has stored
    dropped,     \* history: the reports discarded after their fifth failure
    rejected     \* history: the reports the backend answered 400 or 404

vars == <<workload, now, busHash, speeds, routeCache, req, started, asked, faults,
          connected, rooms, inbox, recent, snaps, newest, polylineDocs, computes,
          routes, added, watching, subCount,
          queue, dev, captured, flushes, delivered, queued, dropped, rejected>>

\* Route.findById(routeId)
RouteFindById(routeId) ==
    IF routes[routeId] # None THEN [t |-> "doc", stops |-> StopsOf(routeId)] ELSE None

\* Polyline.findOne({ routeId })
PolylineFindOne(routeId) ==
    IF polylineDocs[routeId] # None THEN [t |-> "doc", geometry |-> polylineDocs[routeId]] ELSE None

Procs == {"p1", "p2"}
Sockets == {"X", "Y"}

\* io: the Socket.IO server; initSocket(server) runs before server.listen.
io == TRUE

Point(lat, lng) == [lat |-> lat, lng |-> lng]

\* The clock readings around the staleness threshold.
StaleTimes == {0, StaleSeconds, StaleSeconds + 1}

ServerWorkloads ==
    { [name |-> "ring", procs |-> {"p1"}, ingests |-> MaxIngestRing, lives |-> 0, computes |-> 0,
       buses |-> {BusId("V1")}, points |-> {Point(Num(1), Num(3))},
       speeds |-> {Num(0), Num(30), Num(60), Num(90), Num(-5), Undefined, Null},
       times |-> {0}, faults |-> 0, sockets |-> {}, subRoutes |-> {}],
      [name |-> "race", procs |-> {"p1", "p2"}, ingests |-> MaxIngestRace, lives |-> 0, computes |-> 0,
       buses |-> {BusId("V1")}, points |-> {Point(Num(1), Num(3))},
       speeds |-> {Num(30)},
       times |-> 0..MaxTime, faults |-> 0, sockets |-> {"X"}, subRoutes |-> {BusId("R1")}],
      [name |-> "read", procs |-> {"p1", "p2"}, ingests |-> MaxIngestRead, lives |-> MaxLive, computes |-> 0,
       buses |-> {BusId("V1")}, points |-> {Point(Num(1), Num(1)), Point(Num(1), Num(3))},
       speeds |-> {Num(30), Undefined},
       times |-> {0}, faults |-> 0, sockets |-> {}, subRoutes |-> {}],
      [name |-> "outage", procs |-> {"p1"}, ingests |-> MaxIngestPush, lives |-> MaxLive, computes |-> 0,
       buses |-> {BusId("V1"), BusId("V2"), BusId("UNKNOWN")}, points |-> {Point(Num(1), Num(3))},
       speeds |-> {Num(30), Undefined},
       times |-> {0}, faults |-> MaxFaults, sockets |-> {}, subRoutes |-> {}],
      [name |-> "push", procs |-> {"p1"}, ingests |-> MaxIngestPush, lives |-> 0, computes |-> 0,
       buses |-> {BusId("V1"), BusId("V2"), BusId("V3"), BusId("UNKNOWN"), Undefined},
       points |-> {Point(Num(1), Num(3))},
       speeds |-> {Num(30)},
       times |-> {0}, faults |-> MaxFaults, sockets |-> {"X", "Y"},
       subRoutes |-> {BusId("R1"), BusId("R2"), Undefined}],
      [name |-> "stale", procs |-> {"p1", "p2"}, ingests |-> MaxIngestStale, lives |-> MaxLiveStale,
       computes |-> 0,
       buses |-> {BusId("V1")}, points |-> {Point(Num(1), Num(3))},
       speeds |-> {Num(30)},
       times |-> StaleTimes, faults |-> 0, sockets |-> {"X"}, subRoutes |-> {BusId("R1")}],
      [name |-> "check", procs |-> {"p1"}, ingests |-> MaxIngestCheck, lives |-> MaxLive, computes |-> 0,
       buses |-> {BusId("V1"), Undefined},
       points |-> {Point(Num(1), Num(3)), Point(Null, Num(3)), Point(EmptyStr, Num(3)),
                   Point(TextStr, Num(3)), Point(Num(1), Undefined)},
       speeds |-> {Num(30), Null},
       times |-> {0}, faults |-> 0, sockets |-> {}, subRoutes |-> {}],
      [name |-> "admin", procs |-> {"p1", "p2"}, ingests |-> MaxIngestAdmin, lives |-> 0,
       computes |-> MaxCompute,
       buses |-> {BusId("V2")}, points |-> {Point(Num(1), Num(3))},
       speeds |-> {Num(30)},
       times |-> {0}, faults |-> MaxFaults, sockets |-> {}, subRoutes |-> {}] }

\* A workload in which nothing is asked: the fields every workload has.
NoWorkload ==
    [name |-> "none", procs |-> {}, ingests |-> 0, lives |-> 0, computes |-> 0, addRoutes |-> 0,
     buses |-> {}, points |-> {}, speeds |-> {}, times |-> {0}, faults |-> 0,
     sockets |-> {}, subRoutes |-> {}, joinBuses |-> {}, resubs |-> 1,
     devProcs |-> {}, captures |-> 0, flushes |-> 0, kinds |-> {}]

\* One passenger socket: it may send joinBus and subscribe:route repeatedly.
ClientWorkload ==
    [name |-> "client", procs |-> {"p1"}, ingests |-> MaxIngestClient,
     buses |-> {BusId("V1")}, points |-> {Point(Num(1), Num(3))}, speeds |-> {Num(30)},
     sockets |-> {"X"}, subRoutes |-> {BusId("R1"), BusId("R2")}, joinBuses |-> {"V1"},
     resubs |-> MaxResub] @@ NoWorkload

\* The admin adds routes while the route list is asked for.
AddRouteWorkload ==
    [name |-> "addroute", procs |-> {"p1", "p2"}, addRoutes |-> MaxAddRoute, computes |-> 1,
     faults |-> MaxFaults] @@ NoWorkload

\* One task or flush at a time, the network down for long: an item may
\* fail MaxRetries flushes.
RetryWorkload ==
    [name |-> "retry", devProcs |-> {"d1"}, captures |-> MaxCaptureRetry, flushes |-> MaxFlushRetry,
     kinds |-> {"good"}] @@ NoWorkload

\* Tasks and flushes overlap.
DeviceWorkload ==
    [name |-> "device", devProcs |-> {"d1", "d2"}, captures |-> MaxCapture, flushes |-> MaxFlush,
     kinds |-> {"good"}] @@ NoWorkload

\* The backend rejects some reports.
RejectWorkload ==
    [name |-> "reject", devProcs |-> {"d1"}, captures |-> MaxCaptureReject,
     flushes |-> MaxFlushReject, kinds |-> {"good", "invalid", "unknown"}] @@ NoWorkload

Workloads ==
    {w @@ NoWorkload : w \in ServerWorkloads}
      \cup {ClientWorkload, AddRouteWorkload, RetryWorkload, DeviceWorkload, RejectWorkload}

\* The values requests and socket messages are drawn from.
BusInputs == {BusId("V1"), BusId("V2"), BusId("V3"), BusId("UNKNOWN"), Undefined}
PointInputs ==
    {Point(Num(1), Num(1)), Point(Num(1), Num(3)), Point(Null, Num(3)), Point(EmptyStr, Num(3)),
     Point(TextStr, Num(3)), Point(Num(1), Undefined)}
SpeedInputs == {Num(0), Num(30), Num(60), Num(90), Num(-5), Undefined, Null}
RouteInputs == {BusId("R1"), BusId("R2"), Undefined}

Idle == [kind |-> "idle", pc |-> "idle"]

\* The driver device runs its background tasks and flushes as DevProcs.
DevProcs == {"d1", "d2"}
DevIdle == [op |-> "idle", pc |-> "idle"]

\* A process takes a request when it has answered the one before.
Free(p) == req[p].pc \in {"idle", "done"}

Init ==
    /\ workload \in Workloads
    /\ now = 0
    /\ busHash = [b \in BusKeys |-> None]
    /\ speeds = [b \in BusKeys |-> <<>>]
    /\ routeCache = [r \in Routes |-> None]
    /\ req = [p \in Procs |-> Idle]
    /\ started = 0
    /\ asked = 0
    /\ faults = 0
    /\ connected = [s \in Sockets |-> FALSE]
    /\ rooms = [s \in Sockets |-> {}]
    /\ inbox = [s \in Sockets |-> <<>>]
    /\ recent = [b \in BusKeys |-> <<>>]
    /\ snaps = [b \in BusKeys |-> {[hash |-> None, ring |-> <<>>]}]
    /\ newest = [b \in BusKeys |-> -1]
    /\ polylineDocs = [r \in Routes |-> IF r \in DOMAIN PolylineDocs THEN PolylineDocs[r] ELSE None]
    /\ computes = 0
    /\ routes = [r \in Routes |-> IF r \in DOMAIN RouteNames
                                   THEN [t |-> "doc", routeName |-> RouteNames[r]] ELSE None]
    /\ added = 0
    /\ watching = [s \in Sockets |-> {}]
    /\ subCount = [s \in Sockets |-> [r \in Routes |-> 0]]
    /\ queue = <<>>
    /\ dev = [d \in DevProcs |-> DevIdle]
    /\ captured = 0
    /\ flushes = 0
    /\ delivered = <<>>
    /\ queued = {}
    /\ dropped = {}
    /\ rejected = {}

cacheVars == <<busHash, speeds, routeCache>>
socketVars == <<connected, rooms>>
histVars == <<recent, snaps, newest>>
mongoVars == <<polylineDocs, computes, routes, added>>
clientVars == <<watching, subCount>>
deviceVars == <<queue, dev, captured, flushes, delivered, queued, dropped, rejected>>

(***************************************************************************)
(* Socket.IO rooms (realtime/socket.js).  A room route:<routeId> is named  *)
(* here by its routeId.                                                    *)
(***************************************************************************)
\* io.on('connection'): a new socket has joined no room.
Connect(s) ==
    /\ s \in workload.sockets
    /\ ~connected[s]
    /\ connected' = [connected EXCEPT ![s] = TRUE]
    /\ rooms' = [rooms EXCEPT ![s] = {}]
    /\ watching' = [watching EXCEPT ![s] = {}]
    /\ subCount' = [subCount EXCEPT ![s] = [r \in Routes |-> 0]]
    /\ UNCHANGED <<workload, deviceVars, mongoVars, now, cacheVars, req, started, asked, faults, inbox, histVars>>

\* socket.on('subscribe:route', ({ routeId }) => { if (routeId) socket.join(...) })
\* History of subscribe:route: one more message for the route, counted up to
\* workload.resubs.
Subscribed(s, routeId) ==
    IF Falsy(routeId) THEN subCount
    ELSE [subCount EXCEPT ![s][routeId.id] = IF @ < workload.resubs THEN @ + 1 ELSE @]

\* subscribe:route with a room that toggles: a second message for the same
\* route leaves the room.
SubscribeRoute_Toggle(s, routeId) ==
    /\ connected[s]
    /\ routeId \in workload.subRoutes
    /\ rooms' = [rooms EXCEPT ![s] = IF Falsy(routeId) THEN @
                                     ELSE IF routeId.id \in @ THEN @ \ {routeId.id}
                                     ELSE @ \cup {routeId.id}]
    /\ subCount' = Subscribed(s, routeId)
    /\ UNCHANGED <<workload, deviceVars, watching, mongoVars, now, cacheVars, req, started, asked, faults, connected, inbox, histVars>>

SubscribeRoute(s, routeId) ==
    /\ connected[s]
    /\ routeId \in workload.subRoutes
    /\ rooms' = [rooms EXCEPT ![s] = IF Falsy(routeId) THEN @ ELSE @ \cup {routeId.id}]
    /\ subCount' = Subscribed(s, routeId)
    /\ UNCHANGED <<workload, deviceVars, watching, mongoVars, now, cacheVars, req, started, asked, faults, connected, inbox, histVars>>

\* socket.on('unsubscribe:route', ({ routeId }) => { if (routeId) socket.leave(...) })
UnsubscribeRoute(s, routeId) ==
    /\ connected[s]
    /\ routeId \in workload.subRoutes
    /\ rooms' = [rooms EXCEPT ![s] = IF Falsy(routeId) THEN @ ELSE @ \ {routeId.id}]
    /\ subCount' = IF Falsy(routeId) THEN subCount ELSE [subCount EXCEPT ![s][routeId.id] = 0]
    /\ UNCHANGED <<workload, deviceVars, watching, mongoVars, now, cacheVars, req, started, asked, faults, connected, inbox, histVars>>

\* The passenger web client: on 'connect' it sends socket.emit('joinBus', busId).
\* The server registers handlers for subscribe:route and unsubscribe:route
\* only, so the message changes no room.
JoinBus(s, busId) ==
    /\ connected[s]
    /\ busId \in workload.joinBuses
    /\ busId \notin watching[s]
    /\ watching' = [watching EXCEPT ![s] = @ \cup {busId}]
    /\ UNCHANGED <<workload, deviceVars, subCount, mongoVars, now, cacheVars, req, started, asked, faults, socketVars, inbox, histVars>>

\* A disconnecting socket leaves all its rooms.
Disconnect(s) ==
    /\ connected[s]
    /\ connected' = [connected EXCEPT ![s] = FALSE]
    /\ rooms' = [rooms EXCEPT ![s] = {}]
    /\ watching' = [watching EXCEPT ![s] = {}]
    /\ subCount' = [subCount EXCEPT ![s] = [r \in Routes |-> 0]]
    /\ UNCHANGED <<workload, deviceVars, mongoVars, now, cacheVars, req, started, asked, faults, inbox, histVars>>

\* The sockets an emission reaches: io.to(room).emit for a routeId, io.emit
\* (every connected socket) without one, nobody before initSocket.
Recipients(routeId) ==
    IF ~io THEN {}
    ELSE IF routeId # "" THEN {s \in Sockets : connected[s] /\ routeId \in rooms[s]}
    ELSE {s \in Sockets : connected[s]}

\* emitBusUpdate with io.emit in place of io.to(room).emit: every connected
\* socket receives the event.
emitBusUpdate_ToAll(routeId, payload) ==
    [s \in Sockets |-> IF connected[s] THEN Append(inbox[s], payload) ELSE inbox[s]]

\* emitBusUpdate(routeId, payload): the inboxes after the emission.
emitBusUpdate(routeId, payload) ==
    [s \in Sockets |-> IF s \in Recipients(routeId) THEN Append(inbox[s], payload) ELSE inbox[s]]

(***************************************************************************)
(* POST /api/bus/update-location (updateBusLocation).                      *)
(***************************************************************************)
\* History: the route of the bus was in the geometry cache when the request
\* arrived.
CachedFor(busId) ==
    /\ BusFindOne(busId) # None
    /\ routeCache[BusFindOne(busId).routeId] # None

\* The fields pushed, ring, polyReads and cachedAtStart are history: whether
\* the speed was pushed, the ring as lrange returned it, the number of reads
\* of the durable Polyline, and CachedFor on arrival.
NewIngest(busId, pt, speed) ==
    [kind |-> "ingest", pc |-> "findBus", busId |-> busId, lat |-> pt.lat, lng |-> pt.lng,
     speed |-> speed, found |-> "pending", routeId |-> "", nowIso |-> 0, avgSpeed |-> 0,
     coords |-> None, stops |-> None, wrote |-> 0, emits |-> <<>>, failedAt |-> "",
     status |-> 0, body |-> None,
     pushed |-> FALSE, ring |-> <<>>, polyReads |-> 0, cachedAtStart |-> CachedFor(busId)]

\* res.status(code).json(body)
Respond(r, code, body) == [r EXCEPT !.pc = "done", !.status = code, !.body = body]

\* The catch block of a handler.
ServerError(r) ==
    Respond([r EXCEPT !.failedAt = r.pc], 500, IF r.kind = "ingest"
                    THEN [success |-> FALSE, message |-> "Server error"]
                    ELSE [message |-> "Server error"])

\* An awaited store or cache operation rejects.
MayFail == faults < workload.faults

\* Lines 87-90: the body is read and validated.
Receive(p, busId, pt, speed) ==
    /\ p \in workload.procs /\ Free(p)
    /\ busId \in workload.buses /\ pt \in workload.points /\ speed \in workload.speeds
    /\ started < workload.ingests
    /\ started' = started + 1
    /\ req' = [req EXCEPT ![p] =
         IF Falsy(busId) \/ ~IsFinite(ToNumber(pt.lat)) \/ ~IsFinite(ToNumber(pt.lng))
         THEN Respond(NewIngest(busId, pt, speed), 400,
                      [success |-> FALSE, message |-> "busId, lat, lng are required"])
         ELSE NewIngest(busId, pt, speed)]
    /\ UNCHANGED <<workload, deviceVars, clientVars, mongoVars, now, cacheVars, asked, faults, socketVars, inbox, histVars>>

\* FindBus with the vehicle state written before the busDoc check.
FindBus_WriteFirst(p) ==
    /\ req[p].kind = "ingest" /\ req[p].pc = "findBus"
    /\ LET r == req[p]
           busDoc == BusFindOne(r.busId)
       IN  /\ busHash' = [busHash EXCEPT ![r.busId.id] =
                 [lastLat |-> r.lat, lastLng |-> r.lng, lastUpdated |-> now, routeId |-> ""]]
           /\ req' = [req EXCEPT ![p] =
                 IF busDoc = None
                 THEN Respond([r EXCEPT !.found = "null", !.wrote = @ + 1], 404,
                              [success |-> FALSE, message |-> "Bus not found"])
                 ELSE [r EXCEPT !.found = "doc", !.routeId = busDoc.routeId, !.wrote = @ + 1,
                                !.nowIso = now, !.pc = "hset"]]
    /\ UNCHANGED <<workload, deviceVars, clientVars, mongoVars, now, speeds, routeCache, started, asked, faults, socketVars,
                   inbox, histVars>>

\* Lines 92-97: Bus.findOne resolves; routeId and nowIso are taken.
FindBus(p) ==
    /\ req[p].kind = "ingest" /\ req[p].pc = "findBus"
    /\ LET r == req[p]
           busDoc == BusFindOne(r.busId)
       IN  req' = [req EXCEPT ![p] =
             IF busDoc = None
             THEN Respond([r EXCEPT !.found = "null"], 404,
                          [success |-> FALSE, message |-> "Bus not found"])
             ELSE [r EXCEPT !.found = "doc", !.routeId = busDoc.routeId,
                            !.nowIso = now, !.pc = "hset"]]
    /\ UNCHANGED <<workload, deviceVars, clientVars, mongoVars, now, cacheVars, started, asked, faults, socketVars, inbox, histVars>>

FindBusFail(p) ==
    /\ req[p].kind \in {"ingest", "live"} /\ req[p].pc = "findBus"
    /\ MayFail
    /\ faults' = faults + 1
    /\ req' = [req EXCEPT ![p] = ServerError([req[p] EXCEPT !.found = "error"])]
    /\ UNCHANGED <<workload, deviceVars, clientVars, mongoVars, now, cacheVars, started, asked, socketVars, inbox, histVars>>

\* The state of a bus between reports, as a reader would want to see it.
Snapshot(hash, ring) == [hash |-> hash, ring |-> ring]

\* Lines 100-105: hset(bus:<busId>, {lastLat, lastLng, lastUpdated, routeId}).
HsetBus(p) ==
    /\ req[p].kind = "ingest" /\ req[p].pc = "hset"
    /\ LET r == req[p]
           b == r.busId.id
           pushes == IsFinite(ToNumber(r.speed))
       IN  /\ busHash' = [busHash EXCEPT ![b] =
                 [lastLat |-> r.lat, lastLng |-> r.lng, lastUpdated |-> r.nowIso,
                  routeId |-> r.routeId]]
           /\ req' = [req EXCEPT ![p] =
                 [r EXCEPT !.wrote = @ + 1, !.pc = IF pushes THEN "lpush" ELSE "lrange"]]
           /\ snaps' = IF pushes THEN snaps
                       ELSE [snaps EXCEPT ![b] = @ \cup {Snapshot(busHash'[b], speeds[b])}]
           /\ newest' = [newest EXCEPT ![b] = Max2(@, r.nowIso)]
    /\ UNCHANGED <<workload, deviceVars, clientVars, mongoVars, now, speeds, routeCache, started, asked, faults, socketVars,
                   inbox, recent>>

\* Line 109: lpush(bus:<busId>:speeds, String(speed)).
Lpush(p) ==
    /\ req[p].kind = "ingest" /\ req[p].pc = "lpush"
    /\ LET r == req[p]
           b == r.busId.id
           n == ToNumber(r.speed)
       IN  /\ speeds' = [speeds EXCEPT ![b] = <<r.speed>> \o @]
           /\ recent' = IF IsFinite(n) /\ n.n >= 0
                        THEN [recent EXCEPT ![b] = SubSeq(<<n.n>> \o @, 1, Min2(3, Len(@) + 1))]
                        ELSE recent
           /\ req' = [req EXCEPT ![p] = [r EXCEPT !.wrote = @ + 1, !.pushed = TRUE, !.pc = "ltrim"]]
    /\ UNCHANGED <<workload, deviceVars, clientVars, mongoVars, now, busHash, routeCache, started, asked, faults, socketVars,
                   inbox, snaps, newest>>

\* Line 110: ltrim(bus:<busId>:speeds, 0, 2).
Ltrim(p) ==
    /\ req[p].kind = "ingest" /\ req[p].pc = "ltrim"
    /\ LET r == req[p]
           b == r.busId.id
       IN  /\ speeds' = [speeds EXCEPT ![b] = SubSeq(@, 1, Min2(3, Len(@)))]
           /\ snaps' = [snaps EXCEPT ![b] = @ \cup {Snapshot(busHash[b], speeds'[b])}]
           /\ req' = [req EXCEPT ![p] = [r EXCEPT !.wrote = @ + 1, !.pc = "lrange"]]
    /\ UNCHANGED <<workload, deviceVars, clientVars, mongoVars, now, busHash, routeCache, started, asked, faults, socketVars,
                   inbox, recent, newest>>

\* lrange(key, 0, 2)
lrange(list) == SubSeq(list, 1, Min2(3, Len(list)))

\* Lines 114-115: the ring is read back and averaged.
Lrange(p) ==
    /\ req[p].kind = "ingest" /\ req[p].pc = "lrange"
    /\ LET r == req[p]
       IN  req' = [req EXCEPT ![p] =
             [r EXCEPT !.ring = lrange(speeds[r.busId.id]),
                       !.avgSpeed = computeAverageSpeed(lrange(speeds[r.busId.id])),
                       !.pc = "geoCache"]]
    /\ UNCHANGED <<workload, deviceVars, clientVars, mongoVars, now, cacheVars, started, asked, faults, socketVars, inbox, histVars>>

\* StateOpFail with the rejection swallowed: the handler goes on to read the
\* ring and to answer.
StateOpFail_Ignored(p) ==
    /\ req[p].kind = "ingest" /\ req[p].pc \in {"hset", "lpush", "ltrim", "lrange"}
    /\ MayFail
    /\ faults' = faults + 1
    /\ req' = [req EXCEPT ![p].failedAt = req[p].pc, ![p].pc = "lrange"]
    /\ UNCHANGED <<workload, deviceVars, clientVars, mongoVars, now, cacheVars, started, asked, socketVars, inbox, histVars>>

\* hset / lpush / ltrim / lrange of the vehicle state rejects: the catch
\* block answers 500.
StateOpFail(p) ==
    /\ req[p].kind = "ingest" /\ req[p].pc \in {"hset", "lpush", "ltrim", "lrange"}
    /\ MayFail
    /\ faults' = faults + 1
    /\ req' = [req EXCEPT ![p] = ServerError(req[p])]
    /\ UNCHANGED <<workload, deviceVars, clientVars, mongoVars, now, cacheVars, started, asked, socketVars, inbox, histVars>>

\* Lines 128-136: the payload of the ingest.
IngestPayload(r, coords, stops) ==
    LET lat == ToNumber(r.lat).n
        lng == ToNumber(r.lng).n
        res == computeSnappedAndEtas(coords, stops, [lat |-> lat, lng |-> lng], r.avgSpeed)
    IN  [busId |-> r.busId.id,
         routeId |-> r.routeId,
         snappedLocation |-> IF res.snapped # None THEN res.snapped
                             ELSE [t |-> "loc", lat |-> lat, lng |-> lng],
         avgSpeed |-> r.avgSpeed,
         lastUpdated |-> r.nowIso,
         etaStops |-> res.etaStops,
         status |-> "online"]

\* IngestBody with the ETAs left out of the response.
IngestBody_NoEtas(payload) == [success |-> TRUE] @@ [payload EXCEPT !.etaStops = <<>>]

\* Line 141: { success: true, ...payload }
IngestBody(payload) == [success |-> TRUE] @@ payload

\* IngestFinish emitting to the room of the busId instead of the routeId.
IngestFinish_BusRoom(p, r, coords, stops) ==
    LET payload == IngestPayload(r, coords, stops)
    IN  /\ inbox' = emitBusUpdate(r.busId.id, payload)
        /\ req' = [req EXCEPT ![p] =
             Respond([r EXCEPT !.coords = coords, !.stops = stops,
                               !.emits = Append(@, [room |-> r.busId.id, payload |-> payload])],
                     200, IngestBody(payload))]

\* Lines 121-141, run when getRouteGeometryAndStops has resolved: compute,
\* emit to the route's room, answer 200.
IngestFinish(p, r, coords, stops) ==
    LET payload == IngestPayload(r, coords, stops)
    IN  /\ inbox' = emitBusUpdate(r.routeId, payload)
        /\ req' = [req EXCEPT ![p] =
             Respond([r EXCEPT !.coords = coords, !.stops = stops,
                               !.emits = IF io THEN Append(@, [room |-> r.routeId, payload |-> payload])
                                         ELSE @],
                     200, IngestBody(payload))]

(***************************************************************************)
(* GET /api/bus/:id/live (getLiveBus).                                     *)
(***************************************************************************)
NewLive(busId) ==
    [kind |-> "live", pc |-> "findBus", busId |-> busId, found |-> "pending", routeId |-> "",
     busState |-> None, ring |-> <<>>, avgSpeed |-> 0, lastLat |-> Null, lastLng |-> Null,
     lastUpdated |-> None, liveStatus |-> "offline",
     coords |-> None, stops |-> None, wrote |-> 0, emits |-> <<>>, failedAt |-> "",
     status |-> 0, body |-> None,
     checkedAt |-> 0, polyReads |-> 0, cachedAtStart |-> CachedFor(busId)]

\* Line 151: req.params.id
AskLive(p, busId) ==
    /\ p \in workload.procs /\ Free(p)
    /\ busId \in workload.buses
    /\ asked < workload.lives
    /\ asked' = asked + 1
    /\ req' = [req EXCEPT ![p] = NewLive(busId)]
    /\ UNCHANGED <<workload, deviceVars, clientVars, mongoVars, now, cacheVars, started, faults, socketVars, inbox, histVars>>

\* Lines 152-156
LiveFindBus(p) ==
    /\ req[p].kind = "live" /\ req[p].pc = "findBus"
    /\ LET r == req[p]
           busDoc == BusFindOne(r.busId)
       IN  req' = [req EXCEPT ![p] =
             IF busDoc = None
             THEN Respond([r EXCEPT !.found = "null"], 404, [message |-> "Bus not found"])
             ELSE [r EXCEPT !.found = "doc", !.routeId = busDoc.routeId, !.pc = "hgetall"]]
    /\ UNCHANGED <<workload, deviceVars, clientVars, mongoVars, now, cacheVars, started, asked, faults, socketVars, inbox, histVars>>

\* LiveHgetall refreshing lastUpdated of the record it reads.
LiveHgetall_Touch(p) ==
    /\ req[p].kind = "live" /\ req[p].pc = "hgetall"
    /\ req' = [req EXCEPT ![p] = [req[p] EXCEPT !.busState = busHash[req[p].busId.id],
                                               !.pc = "lrange"]]
    /\ busHash' = [busHash EXCEPT ![req[p].busId.id] =
                     IF @ = None THEN @ ELSE [@ EXCEPT !.lastUpdated = now + 1]]
    /\ UNCHANGED <<workload, deviceVars, clientVars, mongoVars, now, speeds, routeCache, started, asked, faults,
                   socketVars, inbox, histVars>>

\* Line 158: hgetall(bus:<busId>)
LiveHgetall(p) ==
    /\ req[p].kind = "live" /\ req[p].pc = "hgetall"
    /\ req' = [req EXCEPT ![p] = [req[p] EXCEPT !.busState = busHash[req[p].busId.id],
                                               !.pc = "lrange"]]
    /\ UNCHANGED <<workload, deviceVars, clientVars, mongoVars, now, cacheVars, started, asked, faults, socketVars, inbox, histVars>>

\* busState?.lastLat ? Number(busState.lastLat) : null, on the stored string
StoredNumber(v) == IF v.t = "emptystr" THEN Null ELSE NumberOfString(v)

\* LiveLrange with diff < 90 * 1000 in place of diff <= 90 * 1000.
LiveLrange_Strict(p) ==
    /\ req[p].kind = "live" /\ req[p].pc = "lrange"
    /\ LET r == req[p]
           ring == lrange(speeds[r.busId.id])
           st == r.busState
           lastUpdated == IF st = None THEN None ELSE [t |-> "iso", at |-> st.lastUpdated]
       IN  req' = [req EXCEPT ![p] =
             [r EXCEPT !.ring = ring,
                       !.avgSpeed = computeAverageSpeed(ring),
                       !.lastLat = IF st = None THEN Null ELSE StoredNumber(st.lastLat),
                       !.lastLng = IF st = None THEN Null ELSE StoredNumber(st.lastLng),
                       !.lastUpdated = lastUpdated,
                       !.liveStatus = IF lastUpdated # None /\ now - lastUpdated.at < StaleSeconds
                                      THEN "online" ELSE "offline",
                       !.checkedAt = now,
                       !.pc = "geoCache"]]
    /\ UNCHANGED <<workload, deviceVars, clientVars, mongoVars, now, cacheVars, started, asked, faults, socketVars,
                   inbox, histVars>>

\* Lines 159-171: lrange, the average, the last position and the status.
LiveLrange(p) ==
    /\ req[p].kind = "live" /\ req[p].pc = "lrange"
    /\ LET r == req[p]
           ring == lrange(speeds[r.busId.id])
           st == r.busState
           lastUpdated == IF st = None THEN None ELSE [t |-> "iso", at |-> st.lastUpdated]
       IN  req' = [req EXCEPT ![p] =
             [r EXCEPT !.ring = ring,
                       !.avgSpeed = computeAverageSpeed(ring),
                       !.lastLat = IF st = None THEN Null ELSE StoredNumber(st.lastLat),
                       !.lastLng = IF st = None THEN Null ELSE StoredNumber(st.lastLng),
                       !.lastUpdated = lastUpdated,
                       !.liveStatus = IF lastUpdated # None /\ now - lastUpdated.at <= StaleSeconds
                                      THEN "online" ELSE "offline",
                       !.checkedAt = now,
                       !.pc = "geoCache"]]
    /\ UNCHANGED <<workload, deviceVars, clientVars, mongoVars, now, cacheVars, started, asked, faults, socketVars, inbox, histVars>>

LiveOpFail(p) ==
    /\ req[p].kind = "live" /\ req[p].pc \in {"hgetall", "lrange"}
    /\ MayFail
    /\ faults' = faults + 1
    /\ req' = [req EXCEPT ![p] = ServerError(req[p])]
    /\ UNCHANGED <<workload, deviceVars, clientVars, mongoVars, now, cacheVars, started, asked, socketVars, inbox, histVars>>

\* turf.point rejects coordinates that are not numbers.
TurfThrows(coords, lat, lng) ==
    /\ coords # None
    /\ Len(coords.v) > 0
    /\ (~IsFinite(lat) \/ ~IsFinite(lng))

\* LiveFinish answering 404 for a bus that has no recorded position.
LiveFinish_NotFoundWhenEmpty(p, r, coords, stops) ==
    /\ req' = [req EXCEPT ![p] =
         IF r.lastLat = Null \/ r.lastLng = Null
         THEN Respond(r, 404, [message |-> "No live data"])
         ELSE Respond([r EXCEPT !.coords = coords, !.stops = stops], 200,
                      [busId |-> r.busId.id, routeId |-> r.routeId,
                       snappedLocation |-> [t |-> "loc", lat |-> r.lastLat.n, lng |-> r.lastLng.n],
                       avgSpeed |-> r.avgSpeed, lastUpdated |-> r.lastUpdated,
                       etaStops |-> <<>>, status |-> r.liveStatus])]
    /\ inbox' = inbox

\* Lines 176-199
LiveFinish(p, r, coords, stops) ==
    LET has == r.lastLat # Null /\ r.lastLng # Null
        res == IF has
               THEN computeSnappedAndEtas(coords, stops,
                        [lat |-> r.lastLat.n, lng |-> r.lastLng.n], r.avgSpeed)
               ELSE [snapped |-> None, etaStops |-> <<>>]
        payload == [busId |-> r.busId.id,
                    routeId |-> r.routeId,
                    snappedLocation |->
                        IF res.snapped # None THEN res.snapped
                        ELSE IF has THEN [t |-> "loc", lat |-> r.lastLat.n, lng |-> r.lastLng.n]
                        ELSE Null,
                    avgSpeed |-> r.avgSpeed,
                    lastUpdated |-> r.lastUpdated,
                    etaStops |-> res.etaStops,
                    status |-> r.liveStatus]
    IN  /\ req' = [req EXCEPT ![p] =
             IF has /\ TurfThrows(coords, r.lastLat, r.lastLng)
             THEN ServerError(r)
             ELSE Respond([r EXCEPT !.coords = coords, !.stops = stops], 200, payload)]
        /\ inbox' = inbox

(***************************************************************************)
(* getRouteGeometryAndStops(routeId), called by both handlers.             *)
(***************************************************************************)
Finish(p, r, coords, stops) ==
    IF r.kind = "ingest" THEN IngestFinish(p, r, coords, stops) ELSE LiveFinish(p, r, coords, stops)

Arr(v) == [t |-> "arr", v |-> v]

\* GeoCache never served from the cache: every lookup goes to the store.
GeoCache_AlwaysMiss(p) ==
    /\ req[p].kind \in {"ingest", "live"} /\ req[p].pc = "geoCache"
    /\ req' = [req EXCEPT ![p].pc = "geoLoad"]
    /\ inbox' = inbox
    /\ UNCHANGED <<workload, deviceVars, clientVars, mongoVars, now, cacheVars, started, asked, faults, socketVars, histVars>>

\* Lines 20-28: hgetall(route:<routeId>); a complete entry is returned as is.
GeoCache(p) ==
    /\ req[p].kind \in {"ingest", "live"} /\ req[p].pc = "geoCache"
    /\ LET cached == routeCache[req[p].routeId]
       IN  IF cached # None
           THEN Finish(p, req[p], Arr(cached.polyline), Arr(cached.stops))
           ELSE /\ req' = [req EXCEPT ![p].pc = "geoLoad"]
                /\ inbox' = inbox
    /\ UNCHANGED <<workload, deviceVars, clientVars, mongoVars, now, cacheVars, started, asked, faults, socketVars, histVars>>

\* GeoLoad reporting a missing Polyline or Route as notFound to the caller.
GeoLoad_NotFound(p) ==
    /\ req[p].kind \in {"ingest", "live"} /\ req[p].pc = "geoLoad"
    /\ LET polyDoc == PolylineFindOne(req[p].routeId)
           routeDoc == RouteFindById(req[p].routeId)
       IN  IF polyDoc = None \/ routeDoc = None
           THEN /\ req' = [req EXCEPT ![p] =
                     Respond(req[p], 404, [success |-> FALSE, message |-> "Route not found"])]
                /\ inbox' = inbox
           ELSE /\ req' = [req EXCEPT ![p].coords = Arr(DecodeToLngLat(polyDoc.geometry)),
                                      ![p].stops = Arr(routeDoc.stops),
                                      ![p].pc = "geoStore"]
                /\ inbox' = inbox
    /\ UNCHANGED <<workload, deviceVars, clientVars, mongoVars, now, cacheVars, started, asked, faults, socketVars, histVars>>

\* Lines 30-39: Polyline.findOne and Route.findById; decode to [lng, lat].
GeoLoad(p) ==
    /\ req[p].kind \in {"ingest", "live"} /\ req[p].pc = "geoLoad"
    /\ LET polyDoc == PolylineFindOne(req[p].routeId)
           routeDoc == RouteFindById(req[p].routeId)
       IN  IF polyDoc = None \/ routeDoc = None
           THEN Finish(p, [req[p] EXCEPT !.polyReads = @ + 1], None, None)
           ELSE /\ req' = [req EXCEPT ![p].coords = Arr(DecodeToLngLat(polyDoc.geometry)),
                                      ![p].stops = Arr(routeDoc.stops),
                                      ![p].polyReads = @ + 1,
                                      ![p].pc = "geoStore"]
                /\ inbox' = inbox
    /\ UNCHANGED <<workload, deviceVars, clientVars, mongoVars, now, cacheVars, started, asked, faults, socketVars, histVars>>

\* Lines 41-45: hset(route:<routeId>, {polyline, stops}), then return.
GeoStore(p) ==
    /\ req[p].kind \in {"ingest", "live"} /\ req[p].pc = "geoStore"
    /\ routeCache' = [routeCache EXCEPT ![req[p].routeId] =
           [polyline |-> req[p].coords.v, stops |-> req[p].stops.v]]
    /\ Finish(p, [req[p] EXCEPT !.wrote = @ + 1], req[p].coords, req[p].stops)
    /\ UNCHANGED <<workload, deviceVars, clientVars, mongoVars, now, busHash, speeds, started, asked, faults, socketVars, histVars>>

\* A cache or store operation of getRouteGeometryAndStops rejects; neither
\* it nor its callers catch before the handler's catch block.
GeoFail(p) ==
    /\ req[p].kind \in {"ingest", "live"} /\ req[p].pc \in {"geoCache", "geoLoad", "geoStore"}
    /\ MayFail
    /\ faults' = faults + 1
    /\ req' = [req EXCEPT ![p] = ServerError(req[p])]
    /\ UNCHANGED <<workload, deviceVars, clientVars, mongoVars, now, cacheVars, started, asked, socketVars, inbox, histVars>>

(***************************************************************************)
(* computeAndStorePolyline(route) of routeController.js, run by addRoute   *)
(* and by getRoutesWithPolyline for a route that has no Polyline yet.      *)
(***************************************************************************)
\* The routes a computation may be asked for.
ComputeRoutes == Routes

\* The encoded geometries the routing provider may answer for the stops of
\* a route, as the [lat, lng] pairs they encode: straight through the
\* stops, or with one more vertex after the first stop.
OrsGeometries(stops) ==
    LET direct == [i \in 1..Len(stops) |-> <<stops[i].latitude, stops[i].longitude>>]
        via == <<direct[1], <<direct[1][1], direct[1][2] + 1>>>> \o Tail(direct)
    IN  {direct, via}

GeometryInputs == UNION {OrsGeometries(StopsOf(r)) : r \in ComputeRoutes}

\* caller is the handler that awaits the computation: "list" for
\* getRoutesWithPolyline, "addRoute" for addRoute; status is the answer of
\* addRoute, 0 while there is none.
NewCompute(routeId) ==
    [kind |-> "compute", pc |-> "exists", routeId |-> routeId, stops |-> StopsOf(routeId),
     geometry |-> None, created |-> FALSE, wrote |-> 0, failedAt |-> "",
     caller |-> "list", status |-> 0]

\* computeAndStorePolyline returns: its own catch (lines 49-51) has logged
\* any error, so the await of addRoute (line 92) never rejects and addRoute
\* answers 201 (line 98).
Return(r) ==
    [r EXCEPT !.pc = "done", !.status = IF r.caller = "addRoute" THEN 201 ELSE @]

\* Line 16: the call, with the Route document of routeId.
ComputeStart(p, routeId) ==
    /\ p \in workload.procs /\ Free(p)
    /\ computes < workload.computes
    /\ routes[routeId] # None
    /\ computes' = computes + 1
    /\ req' = [req EXCEPT ![p] = NewCompute(routeId)]
    /\ UNCHANGED <<workload, deviceVars, clientVars, polylineDocs, routes, added, now, cacheVars, started, asked, faults, socketVars,
                   inbox, histVars>>

\* Lines 19-20: Polyline.findOne({ routeId }); nothing to do when it exists.
PolyExists(p) ==
    /\ req[p].kind = "compute" /\ req[p].pc = "exists"
    /\ req' = [req EXCEPT ![p] = IF PolylineFindOne(req[p].routeId) # None
                                 THEN Return(@) ELSE [@ EXCEPT !.pc = "ors"]]
    /\ UNCHANGED <<workload, deviceVars, clientVars, mongoVars, now, cacheVars, started, asked, faults, socketVars,
                   inbox, histVars>>

\* Line 25: callORSWithRetry(coords) resolves with an encoded geometry.
CallORS(p, geometry) ==
    /\ req[p].kind = "compute" /\ req[p].pc = "ors"
    /\ geometry \in OrsGeometries(req[p].stops)
    /\ req' = [req EXCEPT ![p].geometry = geometry, ![p].pc = "create"]
    /\ UNCHANGED <<workload, deviceVars, clientVars, mongoVars, now, cacheVars, started, asked, faults, socketVars,
                   inbox, histVars>>

\* Lines 28-34: Polyline.create; routeId is unique in the collection, a
\* second document for the route is rejected and the catch of line 49 ends
\* the computation.
PolyCreate(p) ==
    /\ req[p].kind = "compute" /\ req[p].pc = "create"
    /\ IF polylineDocs[req[p].routeId] # None
       THEN /\ req' = [req EXCEPT ![p] = Return([@ EXCEPT !.failedAt = "create"])]
            /\ polylineDocs' = polylineDocs
       ELSE /\ req' = [req EXCEPT ![p].created = TRUE, ![p].pc = "cacheRoute"]
            /\ polylineDocs' = [polylineDocs EXCEPT ![req[p].routeId] = req[p].geometry]
    /\ UNCHANGED <<workload, deviceVars, clientVars, computes, routes, added, now, cacheVars, started, asked, faults, socketVars,
                   inbox, histVars>>

\* CacheRoute storing the decoded pairs as they are, latitude first.
CacheRoute_LatFirst(p) ==
    /\ req[p].kind = "compute" /\ req[p].pc = "cacheRoute"
    /\ routeCache' = [routeCache EXCEPT ![req[p].routeId] =
           [polyline |-> req[p].geometry, stops |-> req[p].stops]]
    /\ req' = [req EXCEPT ![p] = Return([@ EXCEPT !.wrote = @ + 1])]
    /\ UNCHANGED <<workload, deviceVars, clientVars, mongoVars, now, busHash, speeds, started, asked, faults, socketVars,
                   inbox, histVars>>

\* Lines 37-43: hset(route:<routeId>, {polyline, stops}) with the geometry
\* decoded and swapped to [lng, lat].
CacheRoute(p) ==
    /\ req[p].kind = "compute" /\ req[p].pc = "cacheRoute"
    /\ routeCache' = [routeCache EXCEPT ![req[p].routeId] =
           [polyline |-> DecodeToLngLat(req[p].geometry), stops |-> req[p].stops]]
    /\ req' = [req EXCEPT ![p] = Return([@ EXCEPT !.wrote = @ + 1])]
    /\ UNCHANGED <<workload, deviceVars, clientVars, mongoVars, now, busHash, speeds, started, asked, faults, socketVars,
                   inbox, histVars>>

\* Lines 44-46: the hset rejects; the error is logged and the created
\* document is returned.
CacheRouteFail(p) ==
    /\ req[p].kind = "compute" /\ req[p].pc = "cacheRoute"
    /\ MayFail
    /\ faults' = faults + 1
    /\ req' = [req EXCEPT ![p] = Return([@ EXCEPT !.failedAt = "cacheRoute"])]
    /\ UNCHANGED <<workload, deviceVars, clientVars, mongoVars, now, cacheVars, started, asked, socketVars, inbox, histVars>>

\* Lines 49-51: findOne, the provider (its retries exhausted) or create
\* rejects; the error is logged.
ComputeFail(p) ==
    /\ req[p].kind = "compute" /\ req[p].pc \in {"exists", "ors", "create"}
    /\ MayFail
    /\ faults' = faults + 1
    /\ req' = [req EXCEPT ![p] = Return([@ EXCEPT !.failedAt = req[p].pc])]
    /\ UNCHANGED <<workload, deviceVars, clientVars, mongoVars, now, cacheVars, started, asked, socketVars, inbox, histVars>>

(***************************************************************************)
(* POST /api/routes (addRoute of routeController.js).                      *)
(***************************************************************************)
\* The routeName of the bodies posted: a new name, the name of an existing
\* route, no name.
RouteNameInputs == {NewRouteName, RouteNames["R1"], ""}

\* Lines 57-80: the body is validated; 400 without a routeName.  The stops
\* posted are NewRouteStops.
AddRoute(p, routeName) ==
    /\ p \in workload.procs /\ Free(p)
    /\ added < workload.addRoutes
    /\ added' = added + 1
    /\ req' = [req EXCEPT ![p] =
           IF routeName = ""
           THEN [kind |-> "addRoute", pc |-> "done", routeName |-> routeName, status |-> 400]
           ELSE [kind |-> "addRoute", pc |-> "findName", routeName |-> routeName, status |-> 0]]
    /\ UNCHANGED <<workload, deviceVars, clientVars, polylineDocs, computes, routes, now, cacheVars,
                   started, asked, faults, socketVars, inbox, histVars>>

\* Lines 83-86: Route.findOne({ routeName }); 409 when a route has the name.
RouteFindName(p) ==
    /\ req[p].kind = "addRoute" /\ req[p].pc = "findName"
    /\ req' = [req EXCEPT ![p] =
           IF \E r \in Routes : routes[r] # None /\ routes[r].routeName = req[p].routeName
           THEN [@ EXCEPT !.pc = "done", !.status = 409]
           ELSE [@ EXCEPT !.pc = "createRoute"]]
    /\ UNCHANGED <<workload, deviceVars, clientVars, mongoVars, now, cacheVars, started, asked, faults,
                   socketVars, inbox, histVars>>

\* Line 88: Route.create({ routeName, stops }); lines 91-92: addRoute calls
\* computeAndStorePolyline(route) and awaits it.
RouteCreate(p) ==
    /\ req[p].kind = "addRoute" /\ req[p].pc = "createRoute"
    /\ \E i \in DOMAIN NewRouteIds :
         /\ routes[NewRouteIds[i]] = None
         /\ \A j \in 1..(i - 1) : routes[NewRouteIds[j]] # None
         /\ routes' = [routes EXCEPT ![NewRouteIds[i]] = [t |-> "doc", routeName |-> req[p].routeName]]
         /\ req' = [req EXCEPT ![p] = [NewCompute(NewRouteIds[i]) EXCEPT !.caller = "addRoute"]]
    /\ UNCHANGED <<workload, deviceVars, clientVars, polylineDocs, computes, added, now, cacheVars,
                   started, asked, faults, socketVars, inbox, histVars>>

\* Lines 100-102: Route.findOne or Route.create rejects; 500.
AddRouteFail(p) ==
    /\ req[p].kind = "addRoute" /\ req[p].pc \in {"findName", "createRoute"}
    /\ MayFail
    /\ faults' = faults + 1
    /\ req' = [req EXCEPT ![p].pc = "done", ![p].status = 500]
    /\ UNCHANGED <<workload, deviceVars, clientVars, mongoVars, now, cacheVars, started, asked, socketVars,
                   inbox, histVars>>

(***************************************************************************)
(* The driver app: the background location task (BACKGROUND_LOCATION_TASK) *)
(* and the offline queue (addToQueue, flushQueue).  A report is named by   *)
(* the number of its capture.  kind tells how the backend answers it when  *)
(* the request arrives: "good" 200, "invalid" 400, "unknown" 404.          *)
(***************************************************************************)
\* flushQueue keeps an item while its retryCount is below this.
MaxRetries == 5

ReportKinds == {"good", "invalid", "unknown"}

\* updateBusLocation of the app rejects: no answer, or any answer that is
\* not 2xx (axios).
SendFailures(kind) ==
    CASE kind = "good" -> {"network"}
      [] kind = "invalid" -> {"network", "400"}
      [] kind = "unknown" -> {"network", "404"}

DevFree(d) == dev[d].pc \in {"idle", "done"}

\* A location arrives at the task; the report is built.
Capture(d, kind) ==
    /\ d \in workload.devProcs /\ DevFree(d)
    /\ kind \in workload.kinds
    /\ captured < workload.captures
    /\ captured' = captured + 1
    /\ dev' = [dev EXCEPT ![d] = [op |-> "task", pc |-> "send",
                                  report |-> [id |-> captured + 1, kind |-> kind],
                                  existing |-> <<>>]]
    /\ UNCHANGED <<workload, clientVars, mongoVars, now, cacheVars, req, started, asked, faults,
                   socketVars, inbox, histVars, queue, flushes, delivered, queued, dropped, rejected>>

\* await updateBusLocation(locationUpdate) resolves.
TaskSent(d) ==
    /\ dev[d].op = "task" /\ dev[d].pc = "send"
    /\ dev[d].report.kind = "good"
    /\ delivered' = Append(delivered, [id |-> dev[d].report.id, queued |-> FALSE])
    /\ dev' = [dev EXCEPT ![d].pc = "done"]
    /\ UNCHANGED <<workload, clientVars, mongoVars, now, cacheVars, req, started, asked, faults,
                   socketVars, inbox, histVars, queue, captured, flushes, queued, dropped, rejected>>

\* await updateBusLocation(locationUpdate) rejects: the catch calls
\* addToQueue(locationUpdate) whatever the error was.
TaskSendFail(d, failure) ==
    /\ dev[d].op = "task" /\ dev[d].pc = "send"
    /\ failure \in SendFailures(dev[d].report.kind)
    /\ rejected' = IF failure \in {"400", "404"} THEN rejected \cup {dev[d].report.id} ELSE rejected
    /\ dev' = [dev EXCEPT ![d].pc = "addRead"]
    /\ UNCHANGED <<workload, clientVars, mongoVars, now, cacheVars, req, started, asked, faults,
                   socketVars, inbox, histVars, queue, captured, flushes, delivered, queued, dropped>>

\* addToQueue: existingQueue = await getQueue().
AddRead(d) ==
    /\ dev[d].op = "task" /\ dev[d].pc = "addRead"
    /\ dev' = [dev EXCEPT ![d].existing = queue, ![d].pc = "addWrite"]
    /\ UNCHANGED <<workload, clientVars, mongoVars, now, cacheVars, req, started, asked, faults,
                   socketVars, inbox, histVars, queue, captured, flushes, delivered, queued, dropped,
                   rejected>>

\* addToQueue: AsyncStorage.setItem(QUEUE_KEY, [...existingQueue, queuedUpdate]).
AddWrite(d) ==
    /\ dev[d].op = "task" /\ dev[d].pc = "addWrite"
    /\ queue' = Append(dev[d].existing,
                       [id |-> dev[d].report.id, kind |-> dev[d].report.kind, retryCount |-> 0])
    /\ queued' = queued \cup {dev[d].report.id}
    /\ dev' = [dev EXCEPT ![d].pc = "done"]
    /\ UNCHANGED <<workload, clientVars, mongoVars, now, cacheVars, req, started, asked, faults,
                   socketVars, inbox, histVars, captured, flushes, delivered, dropped, rejected>>

\* flushQueue() is called (journey screen: on start, on stop, on the button).
FlushQueue(d) ==
    /\ d \in workload.devProcs /\ DevFree(d)
    /\ flushes < workload.flushes
    /\ flushes' = flushes + 1
    /\ dev' = [dev EXCEPT ![d] = [op |-> "flush", pc |-> "read", local |-> <<>>, i |-> 1,
                                  failedUpdates |-> <<>>, successfulUpdates |-> {}]]
    /\ UNCHANGED <<workload, clientVars, mongoVars, now, cacheVars, req, started, asked, faults,
                   socketVars, inbox, histVars, queue, captured, delivered, queued, dropped, rejected>>

\* flushQueue: queue = await getQueue(); nothing to do when it is empty.
FlushRead(d) ==
    /\ dev[d].op = "flush" /\ dev[d].pc = "read"
    /\ dev' = [dev EXCEPT ![d].local = queue, ![d].pc = IF queue = <<>> THEN "done" ELSE "send"]
    /\ UNCHANGED <<workload, clientVars, mongoVars, now, cacheVars, req, started, asked, faults,
                   socketVars, inbox, histVars, queue, captured, flushes, delivered, queued, dropped,
                   rejected>>

\* The loop of flushQueue moves to the next item, or to the final write.
Advance(f) ==
    [f EXCEPT !.i = @ + 1, !.pc = IF f.i = Len(f.local) THEN "write" ELSE "send"]

\* flushQueue: the send of the current item resolves.
FlushSent(d) ==
    /\ dev[d].op = "flush" /\ dev[d].pc = "send"
    /\ LET item == dev[d].local[dev[d].i]
       IN  /\ item.kind = "good"
           /\ delivered' = Append(delivered, [id |-> item.id, queued |-> TRUE])
           /\ dev' = [dev EXCEPT ![d] = Advance([@ EXCEPT !.successfulUpdates = @ \cup {item.id}])]
    /\ UNCHANGED <<workload, clientVars, mongoVars, now, cacheVars, req, started, asked, faults,
                   socketVars, inbox, histVars, queue, captured, flushes, queued, dropped, rejected>>

\* FlushSendFail keeping an item whose retryCount has reached MaxRetries.
FlushSendFail_Inclusive(d, failure) ==
    /\ dev[d].op = "flush" /\ dev[d].pc = "send"
    /\ LET item == dev[d].local[dev[d].i]
           updatedItem == [item EXCEPT !.retryCount = @ + 1]
       IN  /\ failure \in SendFailures(item.kind)
           /\ rejected' = IF failure \in {"400", "404"} THEN rejected \cup {item.id} ELSE rejected
           /\ IF updatedItem.retryCount <= MaxRetries
              THEN /\ dev' = [dev EXCEPT ![d] = Advance([@ EXCEPT !.failedUpdates = Append(@, updatedItem)])]
                   /\ dropped' = dropped
              ELSE /\ dev' = [dev EXCEPT ![d] = Advance(@)]
                   /\ dropped' = dropped \cup {item.id}
    /\ UNCHANGED <<workload, clientVars, mongoVars, now, cacheVars, req, started, asked, faults,
                   socketVars, inbox, histVars, queue, captured, flushes, delivered, queued>>

\* flushQueue: the send of the current item rejects; the item is kept with
\* retryCount + 1 while that is below MaxRetries.
FlushSendFail(d, failure) ==
    /\ dev[d].op = "flush" /\ dev[d].pc = "send"
    /\ LET item == dev[d].local[dev[d].i]
           updatedItem == [item EXCEPT !.retryCount = @ + 1]
       IN  /\ failure \in SendFailures(item.kind)
           /\ rejected' = IF failure \in {"400", "404"} THEN rejected \cup {item.id} ELSE rejected
           /\ IF updatedItem.retryCount < MaxRetries
              THEN /\ dev' = [dev EXCEPT ![d] = Advance([@ EXCEPT !.failedUpdates = Append(@, updatedItem)])]
                   /\ dropped' = dropped
              ELSE /\ dev' = [dev EXCEPT ![d] = Advance(@)]
                   /\ dropped' = dropped \cup {item.id}
    /\ UNCHANGED <<workload, clientVars, mongoVars, now, cacheVars, req, started, asked, faults,
                   socketVars, inbox, histVars, queue, captured, flushes, delivered, queued>>

\* flushQueue: AsyncStorage.setItem(QUEUE_KEY, failedUpdates).
FlushWrite(d) ==
    /\ dev[d].op = "flush" /\ dev[d].pc = "write"
    /\ queue' = dev[d].failedUpdates
    /\ dev' = [dev EXCEPT ![d].pc = "done"]
    /\ UNCHANGED <<workload, clientVars, mongoVars, now, cacheVars, req, started, asked, faults,
                   socketVars, inbox, histVars, captured, flushes, delivered, queued, dropped, rejected>>

(***************************************************************************)
(* Environment.                                                            *)
(***************************************************************************)
Tick ==
    /\ \E t \in workload.times : t > now /\ now' = t
    /\ UNCHANGED <<workload, deviceVars, clientVars, mongoVars, cacheVars, req, started, asked, faults, socketVars, inbox, histVars>>

Next ==
    \/ \E p \in Procs : \E busId \in BusInputs, pt \in PointInputs, speed \in SpeedInputs :
         Receive(p, busId, pt, speed)
    \/ \E p \in Procs : FindBus(p)
    \/ \E p \in Procs : FindBusFail(p)
    \/ \E p \in Procs : HsetBus(p)
    \/ \E p \in Procs : Lpush(p)
    \/ \E p \in Procs : Ltrim(p)
    \/ \E p \in Procs : Lrange(p)
    \/ \E p \in Procs : StateOpFail(p)
    \/ \E p \in Procs : \E busId \in BusInputs : AskLive(p, busId)
    \/ \E p \in Procs : LiveFindBus(p)
    \/ \E p \in Procs : LiveHgetall(p)
    \/ \E p \in Procs : LiveLrange(p)
    \/ \E p \in Procs : LiveOpFail(p)
    \/ \E p \in Procs : GeoCache(p)
    \/ \E p \in Procs : GeoLoad(p)
    \/ \E p \in Procs : GeoStore(p)
    \/ \E p \in Procs : GeoFail(p)
    \/ \E p \in Procs : \E routeId \in ComputeRoutes : ComputeStart(p, routeId)
    \/ \E p \in Procs : PolyExists(p)
    \/ \E p \in Procs : \E geometry \in GeometryInputs : CallORS(p, geometry)
    \/ \E p \in Procs : PolyCreate(p)
    \/ \E p \in Procs : CacheRoute(p)
    \/ \E p \in Procs : CacheRouteFail(p)
    \/ \E p \in Procs : ComputeFail(p)
    \/ \E p \in Procs : \E routeName \in RouteNameInputs : AddRoute(p, routeName)
    \/ \E p \in Procs : RouteFindName(p)
    \/ \E p \in Procs : RouteCreate(p)
    \/ \E p \in Procs : AddRouteFail(p)
    \/ \E d \in DevProcs : \E kind \in ReportKinds : Capture(d, kind)
    \/ \E d \in DevProcs : TaskSent(d)
    \/ \E d \in DevProcs : \E failure \in {"network", "400", "404"} : TaskSendFail(d, failure)
    \/ \E d \in DevProcs : AddRead(d)
    \/ \E d \in DevProcs : AddWrite(d)
    \/ \E d \in DevProcs : FlushQueue(d)
    \/ \E d \in DevProcs : FlushRead(d)
    \/ \E d \in DevProcs : FlushSent(d)
    \/ \E d \in DevProcs : \E failure \in {"network", "400", "404"} : FlushSendFail(d, failure)
    \/ \E d \in DevProcs : FlushWrite(d)
    \/ \E s \in Sockets : Connect(s)
    \/ \E s \in Sockets : Disconnect(s)
    \/ \E s \in Sockets : \E routeId \in RouteInputs : SubscribeRoute(s, routeId)
    \/ \E s \in Sockets : \E routeId \in RouteInputs : UnsubscribeRoute(s, routeId)
    \/ \E s \in Sockets : \E busId \in BusKeys : JoinBus(s, busId)
    \/ Tick

Spec == Init /\ [][Next]_vars

(***************************************************************************)
(* Properties.                                                             *)
(***************************************************************************)
\* Every handler invocation has answered.
Quiet == \A p \in Procs : req[p].pc \in {"idle", "done"}

\* An ingest that has answered.
IngestDone(r) == r.kind = "ingest" /\ r.pc = "done"

\* { lat: Number(lat), lng: Number(lng) } of the report.
RawLocation(r) == [t |-> "loc", lat |-> ToNumber(r.lat).n, lng |-> ToNumber(r.lng).n]

\* No Route document or no Polyline document for the route.
GeometryMissing(routeId) == PolylineFindOne(routeId) = None \/ RouteFindById(routeId) = None

\* C1: once every ingest has completed, each speed ring holds at most three
\* entries and they are the three most recent finite non-negative reported
\* speeds, newest first.
C1_RingHoldsNewestValidSpeeds ==
    Quiet => \A b \in BusKeys :
               /\ Len(speeds[b]) <= 3
               /\ Len(speeds[b]) = Len(recent[b])
               /\ \A i \in 1..Len(speeds[b]) : speeds[b][i] = Num(recent[b][i])

\* C2: an ingest answered 200 made exactly one emission, to the room of the
\* route its bus is bound to; an ingest answered otherwise made none.
C2_OneEmissionPerAcceptedIngest ==
    \A p \in Procs :
      LET r == req[p]
      IN  IngestDone(r) =>
            IF r.status = 200
            THEN /\ Len(r.emits) = 1
                 /\ r.emits[1].room = BusDocs[r.busId.id]
            ELSE r.emits = <<>>

C2_Witness ==
    \E p \in Procs :
      /\ IngestDone(req[p]) /\ req[p].status = 200 /\ Len(req[p].emits) = 1
      /\ \E s \in Sockets : inbox[s] # <<>>

\* C3 as stated: the emitted payload equals the 200 response body, same keys
\* and same values.
C3_PayloadEqualsBody ==
    \A p \in Procs :
      LET r == req[p]
      IN  (IngestDone(r) /\ r.status = 200) =>
            /\ DOMAIN r.emits[1].payload = DOMAIN r.body
            /\ \A k \in DOMAIN r.body : r.emits[1].payload[k] = r.body[k]

\* C3 amended: the 200 response body is the emitted payload plus the field
\* success = true; every field of the payload has the same value in both.
C3_BodyIsPayloadPlusSuccess ==
    \A p \in Procs :
      LET r == req[p]
      IN  (IngestDone(r) /\ r.status = 200) =>
            /\ Len(r.emits) = 1
            /\ DOMAIN r.body = DOMAIN r.emits[1].payload \cup {"success"}
            /\ "success" \notin DOMAIN r.emits[1].payload
            /\ r.body.success = TRUE
            /\ \A k \in DOMAIN r.emits[1].payload : r.body[k] = r.emits[1].payload[k]

C3_Witness ==
    \E p \in Procs :
      /\ IngestDone(req[p]) /\ req[p].status = 200
      /\ req[p].body.etaStops # <<>>
      /\ \E s \in Sockets : inbox[s] # <<>> /\ inbox[s][Len(inbox[s])] = req[p].emits[1].payload

\* C4: a socket receives a bus:update only in a step in which it is connected
\* and a member of the room of the route the event's bus is bound to.
C4_OnlyRoomMembersReceive ==
    [][\A s \in Sockets :
         inbox'[s] # inbox[s] =>
           /\ connected[s]
           /\ Len(inbox'[s]) = Len(inbox[s]) + 1
           /\ SubSeq(inbox'[s], 1, Len(inbox[s])) = inbox[s]
           /\ LET e == inbox'[s][Len(inbox'[s])]
              IN  /\ e.routeId = BusDocs[e.busId]
                  /\ e.routeId \in rooms[s]]_vars

\* A socket in the room of R1 has received an update while a socket joined
\* to R2 only, and one that left or never joined, has received nothing.
C4_Witness ==
    \E s, t \in Sockets :
      /\ inbox[s] # <<>> /\ inbox[s][1].routeId = "R1"
      /\ connected[t] /\ rooms[t] = {"R2"} /\ inbox[t] = <<>>

\* C5: a live query that overlaps a report sees the bus as it was before the
\* report or as it is after it: the hash and the ring it read are those of
\* one state between completed reports.
C5_ReaderSeesOneState ==
    \A p \in Procs :
      LET r == req[p]
      IN  (r.kind = "live" /\ r.pc \in {"geoCache", "geoLoad", "geoStore", "done"}
             /\ r.found = "doc" /\ r.failedAt \notin {"hgetall", "lrange"}) =>
            Snapshot(r.busState, r.ring) \in snaps[r.busId.id]

\* C6: once every ingest has completed, the stored record of a bus carries
\* the greatest lastUpdated any report wrote.
C6_YoungestReportWins ==
    Quiet => \A b \in BusKeys : busHash[b] # None => busHash[b].lastUpdated = newest[b]

\* C7: the bus:update events a socket receives for one bus have
\* non-decreasing lastUpdated stamps.
C7_MonotonicPerVehicle ==
    \A s \in Sockets :
      \A i, j \in 1..Len(inbox[s]) :
        (i < j /\ inbox[s][i].busId = inbox[s][j].busId) =>
          inbox[s][i].lastUpdated <= inbox[s][j].lastUpdated

\* C8: an ingest whose busId resolves to no bus is answered 404, has written
\* nothing to the hot cache and has emitted nothing; the hot cache never
\* holds a hash or a speed list for an unknown bus.
C8_UnknownBusNotFound ==
    /\ \A p \in Procs :
         LET r == req[p]
         IN  (IngestDone(r) /\ r.found = "null") =>
               /\ r.status = 404
               /\ r.wrote = 0
               /\ r.emits = <<>>
    /\ \A b \in BusKeys \ KnownBuses : busHash[b] = None /\ speeds[b] = <<>>

C8_Witness ==
    \E p \in Procs :
      /\ IngestDone(req[p]) /\ req[p].busId = BusId("UNKNOWN") /\ req[p].status = 404
      /\ \E b \in KnownBuses : busHash[b] # None

\* C9 as stated: an ingest for a known bus whose route or polyline is missing
\* is answered notFound, writes no vehicle state and emits nothing.
C9_MissingGeometryRejected ==
    \A p \in Procs :
      LET r == req[p]
      IN  (IngestDone(r) /\ r.found = "doc" /\ GeometryMissing(r.routeId)) =>
            /\ r.status = 404
            /\ r.wrote = 0
            /\ r.emits = <<>>

\* C9 amended: such an ingest is never answered 404.  It is answered 200
\* unless a store or cache operation failed; then the vehicle state is
\* written, the body carries the raw position and no ETAs, and one event
\* went to the room of the route.
C9_MissingGeometryAccepted ==
    \A p \in Procs :
      LET r == req[p]
      IN  (IngestDone(r) /\ r.found = "doc" /\ GeometryMissing(r.routeId)) =>
            /\ r.status \in {200, 500}
            /\ r.status = 500 => (r.failedAt # "" /\ r.emits = <<>>)
            /\ r.status = 200 =>
                 /\ r.failedAt = ""
                 /\ r.wrote >= 1
                 /\ busHash[r.busId.id] # None
                 /\ r.body.snappedLocation = RawLocation(r)
                 /\ r.body.etaStops = <<>>
                 /\ Len(r.emits) = 1
                 /\ r.emits[1].room = r.routeId

C9_Witness ==
    \E p \in Procs :
      /\ IngestDone(req[p]) /\ req[p].routeId = "R2" /\ req[p].status = 200
      /\ \E s \in Sockets : inbox[s] # <<>> /\ inbox[s][Len(inbox[s])].routeId = "R2"

\* The geometry of the ingest failed: an operation of
\* getRouteGeometryAndStops rejected, or it found no polyline.
GeometryFailed(r) ==
    \/ r.failedAt \in {"geoCache", "geoLoad", "geoStore"}
    \/ (r.status = 200 /\ r.coords = None)

\* C10: an ingest that wrote the vehicle state and then met a geometry
\* failure is answered 200 with the raw position and no ETAs.
C10_GeometryFailureDegrades ==
    \A p \in Procs :
      LET r == req[p]
      IN  (IngestDone(r) /\ GeometryFailed(r)) =>
            /\ r.status = 200
            /\ r.body.snappedLocation = RawLocation(r)
            /\ r.body.etaStops = <<>>

\* A handler invocation of the live engine that has answered.
Answered(r) == r.kind \in {"ingest", "live"} /\ r.pc = "done"

\* C11: a request whose write of the decoded geometry to route:<routeId>
\* was rejected still completes normally, with the geometry it computed from
\* the durable store.
C11_CacheWriteBestEffort ==
    \A p \in Procs :
      LET r == req[p]
      IN  (Answered(r) /\ r.failedAt = "geoStore") =>
            /\ r.status = 200
            /\ r.coords # None

\* The route:<routeId> entry made from the durable documents of the route.
DecodedEntry(routeId) ==
    [polyline |-> [i \in 1..Len(polylineDocs[routeId]) |->
                     <<polylineDocs[routeId][i][2], polylineDocs[routeId][i][1]>>],
     stops |-> StopsOf(routeId)]

C13_CacheHoldsDecodedLngFirst ==
    \A routeId \in Routes :
      routeCache[routeId] # None =>
        /\ polylineDocs[routeId] # None
        /\ RouteFindById(routeId) # None
        /\ routeCache[routeId] = DecodedEntry(routeId)

\* Both paths have written the entry of R2: the computation that created the
\* Polyline and an ingest that read it from the store.
C13_Witness ==
    \E p, q \in Procs :
      /\ req[p].kind = "compute" /\ req[p].pc = "done" /\ req[p].created /\ req[p].wrote = 1
      /\ IngestDone(req[q]) /\ req[q].status = 200 /\ req[q].polyReads = 1
      /\ req[q].coords # None
      /\ routeCache["R2"] # None
      /\ routeCache["R2"].polyline[1] # polylineDocs["R2"][1]

\* A finite non-negative number.
ValidSpeed(v) == v.t = "num" /\ v.n >= 0

\* C14: an ingest whose speed is not a finite non-negative number pushes
\* nothing onto the ring, and when it is answered 200 it has written the
\* position and the time of the report.
C14_InvalidSpeedLeavesRing ==
    \A p \in Procs :
      LET r == req[p]
      IN  (r.kind = "ingest" /\ ~ValidSpeed(r.speed)) =>
            /\ ~r.pushed
            /\ (r.pc = "done" /\ r.status = 200) =>
                 /\ busHash[r.busId.id] # None
                 /\ r.wrote >= 1

\* The arithmetic mean of the entries of a ring rounded to one decimal, in
\* tenths; 0 for the empty ring, -1 when an entry is not a number.
RingMean(ring) ==
    IF ring = <<>> THEN 0
    ELSE IF \E i \in 1..Len(ring) : ~IsFinite(NumberOfString(ring[i])) THEN -1
    ELSE RoundDiv(10 * SumSeq([i \in 1..Len(ring) |-> NumberOfString(ring[i]).n]), Len(ring))

\* C15: the avgSpeed of a 200 answer, ingest or live query, is the mean of
\* the entries of the ring the handler read, rounded to one decimal, and 0
\* for an empty ring; for the ring [0, 90, 60] it is 50.0.
C15_AvgSpeedIsRingMean ==
    \A p \in Procs :
      LET r == req[p]
      IN  (Answered(r) /\ r.status = 200) =>
            /\ r.body.avgSpeed = RingMean(r.ring)
            /\ r.ring = <<Num(0), Num(90), Num(60)>> => r.body.avgSpeed = 500

\* C16: a live query answered 200 reports online exactly when the record it
\* read has a lastUpdated and the clock was at most 90 seconds past it.
C16_OnlineIffWithinNinetySeconds ==
    \A p \in Procs :
      LET r == req[p]
      IN  (r.kind = "live" /\ r.pc = "done" /\ r.status = 200) =>
            /\ r.body.status \in {"online", "offline"}
            /\ r.body.status = "online" <=>
                 (r.body.lastUpdated # None /\ r.checkedAt - r.body.lastUpdated.at <= 90)

\* One query found the report exactly 90 seconds old and answered online,
\* another found it 91 seconds old and answered offline.
C16_Witness ==
    \E p, q \in Procs :
      /\ req[p].kind = "live" /\ req[p].pc = "done" /\ req[p].status = 200
      /\ req[p].body.lastUpdated # None
      /\ req[p].checkedAt - req[p].body.lastUpdated.at = 90
      /\ req[p].body.status = "online"
      /\ req[q].kind = "live" /\ req[q].pc = "done" /\ req[q].status = 200
      /\ req[q].body.lastUpdated # None
      /\ req[q].checkedAt - req[q].body.lastUpdated.at = 91
      /\ req[q].body.status = "offline"

\* The position a live query derives from the record it read.
DerivedLocation(r) ==
    LET lat == StoredNumber(r.busState.lastLat).n
        lng == StoredNumber(r.busState.lastLng).n
        res == computeSnappedAndEtas(r.coords, r.stops, [lat |-> lat, lng |-> lng], r.avgSpeed)
    IN  IF res.snapped # None THEN res.snapped ELSE [t |-> "loc", lat |-> lat, lng |-> lng]

\* C17: no step of a live query changes bus:<id>, bus:<id>:speeds or what a
\* socket has received; the 200 answer carries the lastUpdated of the record
\* the query read and the position derived from its coordinates, whatever
\* the time since the report.
C17_LiveQueryChangesNothing ==
    [][\A p \in Procs :
         (req[p].kind = "live" /\ req[p].pc # "done" /\ req'[p] # req[p]) =>
           /\ busHash' = busHash
           /\ speeds' = speeds
           /\ inbox' = inbox
           /\ (req'[p].pc = "done" /\ req'[p].status = 200 /\ req'[p].busState # None) =>
                /\ req'[p].body.lastUpdated.at = req'[p].busState.lastUpdated
                /\ (IsFinite(StoredNumber(req'[p].busState.lastLat))
                      /\ IsFinite(StoredNumber(req'[p].busState.lastLng))) =>
                     req'[p].body.snappedLocation = DerivedLocation(req'[p])]_vars

\* A query made 91 seconds after the only report answered offline with the
\* time and the snapped position of that report; the record is as the report
\* left it and the subscriber has received the report's event only.
C17_Witness ==
    \E p \in Procs :
      /\ req[p].kind = "live" /\ req[p].pc = "done" /\ req[p].status = 200
      /\ req[p].body.status = "offline"
      /\ req[p].checkedAt = 91
      /\ req[p].body.lastUpdated = [t |-> "iso", at |-> 0]
      /\ req[p].body.snappedLocation = [t |-> "loc", lat |-> 0, lng |-> 3]
      /\ busHash["V1"] = req[p].busState
      /\ \E s \in Sockets : Len(inbox[s]) = 1

\* C18: a live query for a known bus that found no record and an empty ring
\* is answered 200 unless a store or cache operation was rejected, with
\* snappedLocation null, no ETAs, avgSpeed 0, status offline and lastUpdated
\* null.
C18_NoReportQueryAnswersEmpty ==
    \A p \in Procs :
      LET r == req[p]
      IN  (r.kind = "live" /\ r.pc = "done" /\ r.found = "doc"
             /\ r.busState = None /\ r.ring = <<>>) =>
            /\ r.status \in {200, 500}
            /\ r.status = 500 => r.failedAt # ""
            /\ r.status = 200 =>
                 /\ r.failedAt = ""
                 /\ r.body.snappedLocation = Null
                 /\ r.body.etaStops = <<>>
                 /\ r.body.avgSpeed = 0
                 /\ r.body.status = "offline"
                 /\ r.body.lastUpdated = None

\* A query for V1, whose route has a polyline and stops, before any report.
C18_Witness ==
    \E p \in Procs :
      /\ req[p].kind = "live" /\ req[p].pc = "done" /\ req[p].status = 200
      /\ req[p].busState = None /\ req[p].ring = <<>>
      /\ req[p].coords # None
      /\ req[p].body.snappedLocation = Null

\* Absent, null, empty or not numeric.
NotANumber(v) == v.t \in {"undefined", "null", "emptystr", "text", "nan"}

\* C19: an ingest without busId, or whose lat or lng is absent, null, empty
\* or not numeric, is answered 400, has written nothing to the hot cache and
\* has emitted nothing.
C19_InvalidIngestRejected ==
    \A p \in Procs :
      LET r == req[p]
      IN  (IngestDone(r) /\ (Falsy(r.busId) \/ NotANumber(r.lat) \/ NotANumber(r.lng))) =>
            /\ r.status = 400
            /\ r.wrote = 0
            /\ r.emits = <<>>

\* C20: an ingest whose hash write, ring push or ring trim was rejected is
\* answered 500 and has emitted nothing.
C20_StateWriteFailureFailsIngest ==
    \A p \in Procs :
      LET r == req[p]
      IN  (IngestDone(r) /\ r.failedAt \in {"hset", "lpush", "ltrim"}) =>
            /\ r.status = 500
            /\ r.emits = <<>>

\* The trim of an ingest was rejected after its position was stored, and a
\* subscriber of the route has received nothing.
C20_Witness ==
    \E p \in Procs :
      /\ IngestDone(req[p]) /\ req[p].failedAt = "ltrim" /\ req[p].status = 500
      /\ busHash[req[p].busId.id] # None
      /\ \E s \in Sockets : connected[s] /\ req[p].routeId \in rooms[s] /\ inbox[s] = <<>>

\* An answer that carries a matched position: the request had the geometry
\* of its route and a position to match.
Matched(r) ==
    /\ Answered(r) /\ r.status = 200
    /\ r.coords # None
    /\ r.body.snappedLocation # Null

\* The arc offset, in km from the start of the line, of a point [lng, lat].
OffsetKm(line, lng, lat) == nearestPointOnLine(line, <<lng, lat>>).location

VehicleOffsetKm(r) ==
    OffsetKm(r.coords.v, r.body.snappedLocation.lng, r.body.snappedLocation.lat)

StopOffsetKm(r, i) ==
    OffsetKm(r.coords.v, RouteDocs[r.routeId][i].longitude, RouteDocs[r.routeId][i].latitude)

\* C21: etaStops has one entry per stop of the route, in route order, and
\* each etaMinutes is round(max(stopOffset - vehicleOffset, 0) /
\* max(avgSpeed, 1) * 60): never negative, and 0 for a stop at or behind the
\* vehicle.
C21_EtaPerStopFormula ==
    \A p \in Procs :
      LET r == req[p]
      IN  Matched(r) =>
            /\ Len(r.body.etaStops) = Len(RouteDocs[r.routeId])
            /\ \A i \in 1..Len(r.body.etaStops) :
                 LET e == r.body.etaStops[i]
                     remainingKm == Max2(StopOffsetKm(r, i) - VehicleOffsetKm(r), 0)
                 IN  /\ e.stopId = RouteDocs[r.routeId][i].stopId
                     /\ e.name = RouteDocs[r.routeId][i].name
                     /\ e.etaMinutes = (2 * remainingKm * 600 + Max2(r.body.avgSpeed, 10))
                                          \div (2 * Max2(r.body.avgSpeed, 10))
                     /\ e.etaMinutes >= 0
                     /\ StopOffsetKm(r, i) <= VehicleOffsetKm(r) => e.etaMinutes = 0

\* A stationary bus (avgSpeed 0) 3 km along R1: the two stops behind it get
\* 0 and the terminus, 1 km ahead, gets 60 minutes.
C21_Witness ==
    \E p \in Procs :
      /\ Matched(req[p]) /\ req[p].routeId = "R1"
      /\ req[p].body.avgSpeed = 0
      /\ VehicleOffsetKm(req[p]) = 3
      /\ [i \in 1..3 |-> req[p].body.etaStops[i].etaMinutes] = <<0, 0, 60>>

\* C22: within one answer the ETAs do not decrease from a stop to a stop
\* with a greater or equal offset; of two answers for the same route with
\* the same avgSpeed, the one whose vehicle is further along has no greater
\* ETA for any stop.
C22_EtaMonotonic ==
    /\ \A p \in Procs :
         LET r == req[p]
         IN  Matched(r) =>
               \A i, j \in 1..Len(r.body.etaStops) :
                 StopOffsetKm(r, i) <= StopOffsetKm(r, j) =>
                   r.body.etaStops[i].etaMinutes <= r.body.etaStops[j].etaMinutes
    /\ \A p, q \in Procs :
         LET r == req[p]
             u == req[q]
         IN  (Matched(r) /\ Matched(u) /\ r.routeId = u.routeId
                /\ r.body.avgSpeed = u.body.avgSpeed
                /\ VehicleOffsetKm(r) <= VehicleOffsetKm(u)) =>
               \A i \in 1..Len(r.body.etaStops) :
                 u.body.etaStops[i].etaMinutes <= r.body.etaStops[i].etaMinutes

\* Two answers at 30.0 km/h, the vehicle 1 km and 3 km along R1: the ETA of
\* the terminus falls from 6 to 2 minutes.
C22_Witness ==
    \E p, q \in Procs :
      /\ Matched(req[p]) /\ Matched(req[q])
      /\ req[p].body.avgSpeed = 300 /\ req[q].body.avgSpeed = 300
      /\ VehicleOffsetKm(req[p]) = 1 /\ VehicleOffsetKm(req[q]) = 3
      /\ req[p].body.etaStops[2].etaMinutes = 2
      /\ req[p].body.etaStops[3].etaMinutes = 6
      /\ req[q].body.etaStops[3].etaMinutes = 2


\* C23: joining a route room is idempotent.  A socket is a member of a route
\* room exactly when it has sent subscribe:route for it since its last
\* unsubscribe:route, however many times; a subscribe:route for a room it is
\* already in changes no membership; an unsubscribe:route or subscribe:route
\* for one route leaves the membership of every other room and socket as it
\* was; and an accepted ingest adds its bus:update exactly once to the inbox
\* of each member of the route's room.
C23_SubscribeIdempotent ==
    [][/\ \A s \in Sockets : \A R \in Routes :
            /\ (R \in rooms'[s]) <=> (subCount'[s][R] > 0)
            /\ (subCount[s][R] > 0 /\ subCount'[s][R] > subCount[s][R]) => rooms' = rooms
            /\ (subCount[s][R] > 0 /\ subCount'[s][R] = 0) => R \notin rooms'[s]
            /\ (subCount'[s][R] # subCount[s][R] /\ connected[s] /\ connected'[s]) =>
                 /\ rooms'[s] \ {R} = rooms[s] \ {R}
                 /\ \A t \in Sockets \ {s} : rooms'[t] = rooms[t]
       /\ \A p \in Procs :
            (req[p].pc # "done" /\ IngestDone(req'[p]) /\ req'[p].status = 200) =>
              \A s \in Sockets :
                IF connected[s] /\ BusDocs[req'[p].busId.id] \in rooms[s]
                THEN inbox'[s] = Append(inbox[s], req'[p].emits[1].payload)
                ELSE inbox'[s] = inbox[s]]_vars

\* A socket that subscribed twice to route R1 and is a member of R2 as well
\* has received the one update sent to R1 exactly once.
C23_Witness ==
    /\ subCount["X"]["R1"] = 2
    /\ rooms["X"] = {"R1", "R2"}
    /\ Len(inbox["X"]) = 1
    /\ \E p \in Procs : IngestDone(req[p]) /\ req[p].status = 200

\* C24: once a passenger web client is connected and has asked for bus B
\* (joinBus), every ingest for B answered 200 delivers its bus:update to that
\* client.
C24_WebClientReceivesEveryUpdate ==
    [][\A p \in Procs :
         (req[p].pc # "done" /\ IngestDone(req'[p]) /\ req'[p].status = 200) =>
           \A s \in Sockets :
             (connected[s] /\ req'[p].busId.id \in watching[s]) =>
               inbox'[s] = Append(inbox[s], req'[p].emits[1].payload)]_vars


\* C27: the routing provider is asked once per route: no two computations
\* for the same route both obtain a geometry from it.
C27_OneOrsComputationPerRoute ==
    \A p, q \in Procs :
      (/\ p # q
       /\ req[p].kind = "compute" /\ req[q].kind = "compute"
       /\ req[p].routeId = req[q].routeId)
      => ~(req[p].geometry # None /\ req[q].geometry # None)

\* C30: an addRoute whose polyline computation failed at the routing
\* provider answers 502.
C30_OrsFailureAnswers502 ==
    \A p \in Procs :
      (/\ req[p].kind = "compute" /\ req[p].caller = "addRoute"
       /\ req[p].pc = "done" /\ req[p].failedAt = "ors")
      => req[p].status = 502


\* C25: queued reports are replayed in capture order: of two reports that
\* went through the queue, the one captured later is never accepted by the
\* backend before the other.
C25_QueuedReportsInCaptureOrder ==
    \A i, j \in 1..Len(delivered) :
      (i < j /\ delivered[i].queued /\ delivered[j].queued) => delivered[i].id < delivered[j].id

\* C26: a report the backend answered 400 or 404 is never retried: it is
\* not in the stored queue.
C26_RejectedReportNotQueued ==
    \A i \in 1..Len(queue) : queue[i].id \notin rejected

\* What a flush that read the queue local and sent the items of
\* successfulUpdates is to leave: the other items with retryCount + 1, those
\* below MaxRetries only, in the order of local.
KeptAfter(local, successfulUpdates) ==
    LET Bumped == [k \in 1..Len(local) |-> [local[k] EXCEPT !.retryCount = @ + 1]]
        Keep(item) == item.id \notin successfulUpdates /\ item.retryCount < MaxRetries
    IN  SelectSeq(Bumped, Keep)

\* C28: when a flushQueue run completes, the stored queue is exactly the
\* items of the queue it read whose send failed and whose incremented
\* retryCount is below 5, each with retryCount + 1, in their original order;
\* the items it sent are gone, and so is an item on its fifth failed flush.
C28_FlushLeavesFailedItems ==
    [][\A d \in DevProcs :
         (dev[d].op = "flush" /\ dev[d].pc # "done" /\ dev'[d].pc = "done") =>
           /\ queue' = KeptAfter(dev'[d].local, dev'[d].successfulUpdates)
           /\ \A k \in 1..Len(queue') : queue'[k].retryCount \in 1..(MaxRetries - 1)]_vars

\* A flush has completed on a queue of three: the first item failed for the
\* fifth time and is gone, the second was sent and is gone, the third failed
\* and is stored with retryCount 1.
C28_Witness ==
    \E d \in DevProcs :
      /\ dev[d].op = "flush" /\ dev[d].pc = "done"
      /\ Len(dev[d].local) = 3
      /\ dev[d].local[1].retryCount = MaxRetries - 1
      /\ dev[d].local[1].id \in dropped
      /\ dev[d].successfulUpdates = {dev[d].local[2].id}
      /\ queue = <<[dev[d].local[3] EXCEPT !.retryCount = 1]>>

\* The driver app is at rest: no task and no flush is running.
DeviceQuiet == \A d \in DevProcs : DevFree(d)

\* C29: no queued report is lost: once the app is at rest, every report
\* addToQueue stored is still in the queue, was accepted by the backend, or
\* was discarded after its fifth failure.
C29_NoQueuedReportLost ==
    DeviceQuiet =>
      \A id \in queued :
        \/ \E i \in 1..Len(queue) : queue[i].id = id
        \/ \E i \in 1..Len(delivered) : delivered[i].id = id
        \/ id \in dropped

=============================================================================
